---- MODULE Spec2Model ----
(***************************************************************************)
(* A model of the chat pipeline of poc-open-telemetry:                     *)
(*   chat-service  (POST /chat: publish a job, then call /classify;        *)
(*                  GET /chat-stream: five chunks),                        *)
(*   nlp-service   (POST /classify: call /analyze, bucket by length),      *)
(*   worker        (consume the queue, call /analyze, ack or nack).        *)
(* The broker, the analyze endpoint and the tracing library are the        *)
(* environment: their outcomes are drawn nondeterministically.             *)
(***************************************************************************)
EXTENDS Integers, Sequences, FiniteSets, TLC

(***************************************************************************)
(* Bounds of the model.                                                    *)
(***************************************************************************)
MaxReqs == 2
MaxPipeReqs == 1
MaxForeign == 2
MaxBurst == 12
MaxHdrEntries == 2
MaxStreams == 3

(***************************************************************************)
(* Text.  A text is a sequence of tokens.  A byte string is a sequence of  *)
(* tokens too, and may hold BadByte, a byte that is no valid UTF-8.        *)
(* A Python value is a record [t, s]: t is its type, s its content.        *)
(***************************************************************************)
BadByte == "xFF"

Str(s) == [t |-> "str", s |-> s]
Bytes(s) == [t |-> "bytes", s |-> s]
NoneVal == [t |-> "none", s |-> <<>>]
IntVal(s) == [t |-> "int", s |-> s]

IsBytes(v) == v.t = "bytes"

\* bytes.decode(): strict UTF-8, raises UnicodeDecodeError on an invalid byte
DecodeStrictRaises(b) == \E i \in 1..Len(b) : b[i] = BadByte

\* bytes.decode(errors="ignore"): invalid bytes are dropped
DecodeIgnore(b) == SelectSeq(b, LAMBDA c : c # BadByte)

\* str(v) of a value that is not bytes
PyStr(v) == IF v.t = "none" THEN <<"None">> ELSE v.s

\* str.encode("utf-8"): text never holds BadByte, the tokens are kept
EncodeUtf8(s) == s

(***************************************************************************)
(* A dict is a sequence of <<key, value>> pairs with distinct keys, in     *)
(* insertion order.                                                        *)
(***************************************************************************)
DictHas(d, k) == \E i \in 1..Len(d) : d[i][1] = k

DictGet(d, k) == d[CHOOSE i \in 1..Len(d) : d[i][1] = k][2]

DictSet(d, k, v) ==
    IF DictHas(d, k)
    THEN [i \in 1..Len(d) |-> IF d[i][1] = k THEN <<k, v>> ELSE d[i]]
    ELSE Append(d, <<k, v>>)

\* The headers property of a message: absent (None) or a dict.
NoHeaders == [present |-> FALSE, items |-> <<>>]
Headers(d) == [present |-> TRUE, items |-> d]

(***************************************************************************)
(* worker: _normalize_headers                                              *)
(***************************************************************************)
NormKeyRaises(k) == IsBytes(k) /\ DecodeStrictRaises(k.s)

NormKey(k) == IF IsBytes(k) THEN k.s ELSE PyStr(k)

NormValue(v) == IF IsBytes(v) THEN DecodeIgnore(v.s) ELSE PyStr(v)

RECURSIVE NormItems(_, _)
NormItems(items, acc) ==
    IF items = <<>> THEN [raised |-> FALSE, dict |-> acc]
    ELSE IF NormKeyRaises(Head(items)[1]) THEN [raised |-> TRUE, dict |-> <<>>]
    ELSE NormItems(Tail(items),
                   DictSet(acc, NormKey(Head(items)[1]), NormValue(Head(items)[2])))

_normalize_headers(headers) ==
    IF ~headers.present \/ headers.items = <<>>
    THEN [raised |-> FALSE, dict |-> <<>>]
    ELSE NormItems(headers.items, <<>>)

(***************************************************************************)
(* Trace context.  The traceparent header is version-traceid-spanid-flags; *)
(* the model keeps the four fields as four tokens.                         *)
(***************************************************************************)
TraceIds == {"T1", "T2", "T3", "T9"}
SpanIds == {"S1", "S2", "S3", "P1", "P2", "P3", "S9"}
ZeroTrace == "T0"
TraceParentKey == <<"traceparent">>

NoParent == [valid |-> FALSE, trace |-> "", span |-> ""]
SpanCtx(tr, sp) == [valid |-> TRUE, trace |-> tr, span |-> sp]

\* opentelemetry.propagate.inject: the current span's context, when valid
inject(ctx) ==
    IF ctx.valid
    THEN <<  <<TraceParentKey, <<"00", ctx.trace, ctx.span, "01">> >>  >>
    ELSE <<>>

\* opentelemetry.propagate.extract on a str -> str carrier
extract(carrier) ==
    IF ~DictHas(carrier, TraceParentKey) THEN NoParent
    ELSE LET h == DictGet(carrier, TraceParentKey)
         IN IF /\ Len(h) = 4
               /\ h[1] = "00"
               /\ h[2] \in TraceIds
               /\ h[3] \in SpanIds
               /\ h[4] \in {"00", "01"}
            THEN SpanCtx(h[2], h[3])
            ELSE NoParent

\* start_as_current_span(context=ctx): a child of the extracted context, or
\* the root of a new trace when the context holds no parent
FreshTrace == "T9"
NoSpan == [started |-> FALSE, trace |-> "", parent |-> ""]
StartSpan(ctx) ==
    IF ctx.valid
    THEN [started |-> TRUE, trace |-> ctx.trace, parent |-> ctx.span]
    ELSE [started |-> TRUE, trace |-> FreshTrace, parent |-> ""]

(***************************************************************************)
(* The wire.  pika encodes a header table on publish and decodes it on     *)
(* delivery: keys are short strings, values are typed; a string that is    *)
(* valid UTF-8 arrives as str, any other as bytes.                         *)
(***************************************************************************)
LongStr(b) == [t |-> "longstr", s |-> b]
Void == [t |-> "void", s |-> <<>>]
WireInt(s) == [t |-> "int", s |-> s]

PikaEncodeValue(v) ==
    CASE v.t = "str" -> LongStr(EncodeUtf8(v.s))
      [] v.t = "bytes" -> LongStr(v.s)
      [] v.t = "none" -> Void
      [] OTHER -> WireInt(v.s)

PikaEncodeHeaders(d) ==
    [present |-> TRUE,
     items |-> [i \in 1..Len(d) |-> <<EncodeUtf8(d[i][1]), PikaEncodeValue(Str(d[i][2]))>>]]

PikaDecodeText(b) == IF DecodeStrictRaises(b) THEN Bytes(b) ELSE Str(b)

PikaDecodeValue(w) ==
    CASE w.t = "longstr" -> PikaDecodeText(w.s)
      [] w.t = "void" -> NoneVal
      [] OTHER -> IntVal(w.s)

PikaDecodeHeaders(h) ==
    [present |-> h.present,
     items |-> [i \in 1..Len(h.items) |->
                  <<PikaDecodeText(h.items[i][1]), PikaDecodeValue(h.items[i][2])>>]]

(***************************************************************************)
(* Message bodies.  A body is named by what decoding it gives.             *)
(*   msg      {"message": "<text>"}        nomsg    {} (no message key)    *)
(*   badmsg   {"message": 5}: len() fails  nondict  [1, 2]: .get fails     *)
(*   notjson  not JSON                     notutf8  not UTF-8              *)
(***************************************************************************)
BodyKinds == {"msg", "nomsg", "badmsg", "nondict", "notjson", "notutf8"}

\* chat-service: json.dumps({"message": req.message}).encode("utf-8")
EncodeJob == "msg"

\* worker: json.loads(body.decode("utf-8")); payload.get("message", "");
\* len(message)
DecodePayload(body) == body \in {"msg", "nomsg"}

(***************************************************************************)
(* The analyze endpoint's outcomes, as an httpx call sees them.            *)
(* A JSON body is [form, length]; length is in tenths, so that 195 is 19.5.*)
(***************************************************************************)
Absent == [t |-> "absent", n |-> 0]
Num(tenths) == [t |-> "num", n |-> tenths]
NotNum == [t |-> "text", n |-> 0]

JsonObject(len) == [form |-> "object", length |-> len]
JsonArray == [form |-> "array", length |-> Absent]
NotJson == [form |-> "text", length |-> Absent]

Response(st, b) == [kind |-> "response", status |-> st, body |-> b]
TransportError == [kind |-> "transport", status |-> 0, body |-> NotJson]
Timeout == [kind |-> "timeout", status |-> 0, body |-> NotJson]

Lengths == {Absent, Num(0), Num(190), Num(195), Num(200), Num(210), NotNum}

AnalyzeBodies == {JsonObject(l) : l \in Lengths} \cup {JsonArray, NotJson}

AnalyzeOutcomes ==
    {Response(200, b) : b \in AnalyzeBodies}
      \cup {Response(301, NotJson), Response(404, JsonObject(Absent)), Response(500, NotJson)}
      \cup {TransportError, Timeout}

\* httpx: raise_for_status() raises HTTPStatusError unless the status is 2xx
Is2xx(st) == st >= 200 /\ st < 300

RaiseForStatus_ServerErrorsOnly(o) == o.status >= 500

RaiseForStatus(o) == ~Is2xx(o.status)

\* httpx.HTTPError: a transport error, a timeout, or raise_for_status
HttpError(o) == o.kind # "response" \/ RaiseForStatus(o)

\* resp.json() raises (a ValueError, no httpx.HTTPError) on a body that is no JSON
JsonRaises(o) == o.body.form = "text"

(***************************************************************************)
(* State.                                                                  *)
(***************************************************************************)
VARIABLES
    queue,      \* broker: the ready messages of the queue, oldest first
    dlv,        \* the deliveries made to the worker; the index is the delivery tag
    inbox,      \* delivery tags handed to the worker, on_message not yet called
    published,  \* number of messages ever put in the queue (the next message id)
    wpc,        \* worker: position in main / on_message
    wconn,      \* worker: its connection  ("none", "open", "closed")
    wchan,      \* worker: its channel     ("none", "open", "closed")
    prefetch,   \* broker: the channel's prefetch count (0: unlimited)
    consumer,   \* broker: the worker's consumer is registered
    cur,        \* worker: delivery tag on_message is running for (0: none)
    wexc,       \* worker: what ended the consume loop ("", "error", "interrupt")
    normIn,     \* header normalisation alone: the mapping given
    normOut,    \* header normalisation alone: the result
    gpc,        \* chat-service: position of each POST /chat request
    carrier,    \* chat-service: the carrier inject filled, per request
    tpc,        \* chat-service: position of each request's publishing thread
    pconn,      \* chat-service: the connection of each request's publish
    gseen,      \* chat-service: what the /classify call gave, per request
    gresp,      \* chat-service: the response to the client, per request
    gcalls,     \* chat-service: the publishes and /classify calls issued, per request
    npc,        \* nlp-service: position of each POST /classify request
    nseen,      \* nlp-service: what the /analyze call gave, per request
    nresp,      \* nlp-service: the response to /classify, per request
    ncalls,     \* nlp-service: the /analyze calls issued, per request
    spc,        \* chat-service: position of each GET /chat-stream generator
    sidx,       \* chat-service: the loop index of each generator
    sent,       \* chat-service: the chunks each stream response has emitted
    conns       \* broker: the connections opened, with who holds each

workerVars == <<queue, dlv, inbox, published, wpc, wconn, wchan, prefetch,
                consumer, cur, wexc>>
normVars == <<normIn, normOut>>
chatVars == <<gpc, carrier, tpc, pconn, gseen, gresp, gcalls>>
nlpVars == <<npc, nseen, nresp, ncalls>>
streamVars == <<spc, sidx, sent>>
offWorker == <<normVars, chatVars, nlpVars, streamVars>>
workerSide == <<dlv, inbox, wpc, wconn, wchan, prefetch, consumer, cur, wexc>>

(***************************************************************************)
(* Broker.                                                                 *)
(***************************************************************************)
Message(id, origin, headers, body) ==
    [id |-> id, origin |-> origin, headers |-> headers, body |-> body]

Delivery(m) ==
    [msg |-> m, props |-> PikaDecodeHeaders(m.headers), state |-> "Received",
     ack |-> 0, nack |-> 0, requeue |-> FALSE, calls |-> 0, analyze |-> "none",
     left |-> "no", span |-> NoSpan]

Tags == 1..Len(dlv)

Unacked == {t \in Tags : dlv[t].state \in {"Received", "Processing"}}

Enqueue(m) ==
    /\ queue' = Append(queue, m)
    /\ published' = published + 1

\* basic_qos(prefetch_count=10)
PrefetchCount_Eleven == 10 + 1

PrefetchCount == 10

\* the broker pushes the oldest ready message to the consumer while the
\* channel holds fewer unacknowledged deliveries than its prefetch count
Deliver ==
    /\ consumer /\ wconn = "open" /\ wchan = "open"
    /\ queue # <<>>
    /\ prefetch = 0 \/ Cardinality(Unacked) < prefetch
    /\ dlv' = Append(dlv, Delivery(Head(queue)))
    /\ inbox' = Append(inbox, Len(dlv) + 1)
    /\ queue' = Tail(queue)
    /\ UNCHANGED conns
    /\ UNCHANGED <<published, wpc, wconn, wchan, prefetch, consumer, cur, wexc>>

\* the messages of the unacknowledged deliveries, oldest first
RECURSIVE UnackedMsgs(_)
UnackedMsgs(t) ==
    IF t > Len(dlv) THEN <<>>
    ELSE IF t \in Unacked THEN <<dlv[t].msg>> \o UnackedMsgs(t + 1)
    ELSE UnackedMsgs(t + 1)

\* when the connection closes the broker returns its unacknowledged
\* deliveries to the queue
ReturnUnacked ==
    [t \in Tags |-> IF t \in Unacked THEN [dlv[t] EXCEPT !.state = "Returned"]
                    ELSE dlv[t]]

(***************************************************************************)
(* Connections.  pika.BlockingConnection(...) makes a new connection; the  *)
(* caller keeps it in a local variable and is its only holder.  Each       *)
(* caller opens one connection; a connection is named after who opened it. *)
(***************************************************************************)
WorkerId == 0

Connection(who) == [id |-> who, holders |-> {who}, state |-> "open"]

OpenConnection_Pooled(cs, who) ==
    IF \E c \in cs : c.state = "open"
    THEN LET c == CHOOSE c \in cs : c.state = "open"
         IN (cs \ {c}) \cup {[c EXCEPT !.holders = @ \cup {who}]}
    ELSE cs \cup {Connection(who)}

OpenConnection(cs, who) == cs \cup {Connection(who)}

\* connection.close() on the connection the caller holds
CloseConnection(cs, who) ==
    {IF who \in c.holders THEN [c EXCEPT !.state = "closed"] ELSE c : c \in cs}

(***************************************************************************)
(* Worker: main, lines 62-65 and 95.  Each call may raise; none of them is *)
(* inside the try block.                                                   *)
(***************************************************************************)
WorkerConnect(ok) ==
    /\ wpc = "connect"
    /\ wpc' = IF ok THEN "channel" ELSE "exited"
    /\ wconn' = IF ok THEN "open" ELSE wconn
    /\ wexc' = IF ok THEN wexc ELSE "error"
    /\ conns' = IF ok THEN OpenConnection(conns, WorkerId) ELSE conns
    /\ UNCHANGED <<queue, dlv, inbox, published, wchan, prefetch, consumer, cur>>

WorkerChannel(ok) ==
    /\ wpc = "channel"
    /\ wpc' = IF ok THEN "declare" ELSE "exited"
    /\ wchan' = IF ok THEN "open" ELSE wchan
    /\ wexc' = IF ok THEN wexc ELSE "error"
    /\ UNCHANGED conns
    /\ UNCHANGED <<queue, dlv, inbox, published, wconn, prefetch, consumer, cur>>

WorkerDeclare(ok) ==
    /\ wpc = "declare"
    /\ wpc' = IF ok THEN "qos" ELSE "exited"
    /\ wexc' = IF ok THEN wexc ELSE "error"
    /\ UNCHANGED conns
    /\ UNCHANGED <<queue, dlv, inbox, published, wconn, wchan, prefetch, consumer, cur>>

WorkerQos(ok) ==
    /\ wpc = "qos"
    /\ wpc' = IF ok THEN "consume" ELSE "exited"
    /\ prefetch' = IF ok THEN PrefetchCount ELSE prefetch
    /\ wexc' = IF ok THEN wexc ELSE "error"
    /\ UNCHANGED conns
    /\ UNCHANGED <<queue, dlv, inbox, published, wconn, wchan, consumer, cur>>

WorkerConsume(ok) ==
    /\ wpc = "consume"
    /\ wpc' = IF ok THEN "loop" ELSE "exited"
    /\ consumer' = ok
    /\ wexc' = IF ok THEN wexc ELSE "error"
    /\ UNCHANGED conns
    /\ UNCHANGED <<queue, dlv, inbox, published, wconn, wchan, prefetch, cur>>

(***************************************************************************)
(* Worker: on_message, lines 67-93.  The callback runs for the oldest      *)
(* delivery in the inbox; it is cut where it waits for the network.        *)
(***************************************************************************)
\* what the analyze call gave, as on_message sees it (lines 85-88)
AnalyzeClass(o) ==
    CASE o.kind = "transport" -> "transport"
      [] o.kind = "timeout" -> "timeout"
      [] RaiseForStatus(o) -> "status"
      [] JsonRaises(o) -> "nonjson"
      [] OTHER -> "ok"

AnalyzeSucceeds_NoStatusCheck(o) == o.kind = "response" /\ ~JsonRaises(o)

AnalyzeSucceeds(o) == AnalyzeClass(o) = "ok"

\* basic_nack(delivery_tag=..., requeue=False)
NackRequeue == FALSE

\* line 98: start_consuming calls on_message for the deliveries in the order
\* they arrived on the channel, one call at a time
NextDelivery_Newest(pending) == pending[Len(pending)]

NextDelivery(pending) == Head(pending)

\* lines 68-82: normalise the headers, extract the context, start the
\* consumer span, decode the payload.  Lines 68-69 are outside the try
\* block: an exception there leaves the callback and the consume loop.
OnMessageEnter ==
    /\ wpc = "loop" /\ inbox # <<>>
    /\ LET t == NextDelivery(inbox)
           n == _normalize_headers(dlv[t].props)
       IN /\ inbox' = SelectSeq(inbox, LAMBDA u : u # t)
          /\ IF n.raised
             THEN /\ dlv' = [dlv EXCEPT ![t].state = "Processing", ![t].left = "raise"]
                  /\ wpc' = "finally"
                  /\ wexc' = "error"
                  /\ cur' = 0
             ELSE /\ dlv' = [dlv EXCEPT ![t].state = "Processing",
                                        ![t].span = StartSpan(extract(n.dict)),
                                        ![t].calls = IF DecodePayload(dlv[t].msg.body)
                                                     THEN 1 ELSE 0]
                  /\ wpc' = IF DecodePayload(dlv[t].msg.body) THEN "analyze" ELSE "nack"
                  /\ wexc' = wexc
                  /\ cur' = t
    /\ UNCHANGED conns
    /\ UNCHANGED <<queue, published, wconn, wchan, prefetch, consumer>>

\* lines 85-89: the analyze call returns or raises
AnalyzeReturn(o) ==
    /\ wpc = "analyze"
    /\ dlv' = [dlv EXCEPT ![cur].analyze = AnalyzeClass(o)]
    /\ wpc' = IF AnalyzeSucceeds(o) THEN "ack" ELSE "nack"
    /\ UNCHANGED conns
    /\ UNCHANGED <<queue, inbox, published, wconn, wchan, prefetch, consumer, cur, wexc>>

\* line 90: basic_ack; when it raises, the except clause of line 91 runs
Ack(ok) ==
    /\ wpc = "ack"
    /\ dlv' = [dlv EXCEPT ![cur].ack = @ + 1,
                          ![cur].state = IF ok THEN "Acknowledged" ELSE @,
                          ![cur].left = IF ok THEN "return" ELSE @]
    /\ wpc' = IF ok THEN "loop" ELSE "nack"
    /\ cur' = IF ok THEN 0 ELSE cur
    /\ UNCHANGED conns
    /\ UNCHANGED <<queue, inbox, published, wconn, wchan, prefetch, consumer, wexc>>

\* line 93: basic_nack; when it raises, the exception leaves the callback
Nack(ok) ==
    /\ wpc = "nack"
    /\ dlv' = [dlv EXCEPT ![cur].nack = @ + 1,
                          ![cur].requeue = NackRequeue,
                          ![cur].state = IF ~ok THEN @
                                         ELSE IF NackRequeue THEN "Requeued"
                                         ELSE "Rejected",
                          ![cur].left = IF ok THEN "return" ELSE "raise"]
    /\ queue' = IF ok /\ NackRequeue THEN <<dlv[cur].msg>> \o queue ELSE queue
    /\ wpc' = IF ok THEN "loop" ELSE "finally"
    /\ wexc' = IF ok THEN wexc ELSE "error"
    /\ cur' = 0
    /\ UNCHANGED conns
    /\ UNCHANGED <<inbox, published, wconn, wchan, prefetch, consumer>>

\* line 91: except Exception; KeyboardInterrupt derives from BaseException
\* and is no Exception
CaughtByExcept_BaseException(e) == TRUE

CaughtByExcept(e) == e # "KeyboardInterrupt"

\* lines 99-100: KeyboardInterrupt, raised wherever the consume loop is.
\* Inside the try block of lines 79-90 the except clause of line 91 is
\* asked first; an exception it does not catch leaves the callback and
\* start_consuming.
Interrupt ==
    /\ wpc \in {"loop", "analyze", "ack", "nack"}
    /\ LET caught == wpc \in {"analyze", "ack"} /\ CaughtByExcept("KeyboardInterrupt")
       IN /\ dlv' = IF cur = 0 \/ caught THEN dlv
                    ELSE [dlv EXCEPT ![cur].left = "interrupt"]
          /\ wpc' = IF caught THEN "nack" ELSE "finally"
          /\ cur' = IF caught THEN cur ELSE 0
    /\ wexc' = "interrupt"
    /\ UNCHANGED conns
    /\ UNCHANGED <<queue, inbox, published, wconn, wchan, prefetch, consumer>>

\* lines 101-103: channel.close() then connection.close(); when
\* channel.close() raises, connection.close() is not reached.  The channel
\* is gone either way: its consumer is cancelled and its unacknowledged
\* deliveries go back to the queue.
WorkerFinally(chanOk) ==
    /\ wpc = "finally"
    /\ wpc' = "exited"
    /\ wchan' = "closed"
    /\ wconn' = IF chanOk THEN "closed" ELSE wconn
    /\ consumer' = FALSE
    /\ dlv' = ReturnUnacked
    /\ queue' = UnackedMsgs(1) \o queue
    /\ inbox' = <<>>
    /\ conns' = IF chanOk THEN CloseConnection(conns, WorkerId) ELSE conns
    /\ UNCHANGED <<published, prefetch, cur, wexc>>

(***************************************************************************)
(* Messages other programs put in the queue: any header table, any body.   *)
(***************************************************************************)
TraceParent(fields) == <<TraceParentKey, LongStr(fields)>>

ForeignHeaders ==
    { NoHeaders,
      Headers(<<>>),
      Headers(<< TraceParent(<<"00", "T1", "S1", "01">>) >>),
      Headers(<< TraceParent(<<"00", BadByte, "T1", "S1", "01">>) >>),
      Headers(<< TraceParent(<<"junk">>) >>),
      Headers(<< <<(<<"k", BadByte>>), LongStr(<<"v">>)>> >>) }

GoodHeaders == Headers(<< TraceParent(<<"00", "T1", "S1", "01">>) >>)

ForeignMessages ==
    {[headers |-> h, body |-> "msg"] : h \in ForeignHeaders}
      \cup {[headers |-> GoodHeaders, body |-> b] : b \in BodyKinds}

ForeignPublish(fm) ==
    /\ published < MaxForeign
    /\ Enqueue(Message(published + 1, 0, fm.headers, fm.body))
    /\ UNCHANGED conns
    /\ UNCHANGED <<dlv, inbox, wpc, wconn, wchan, prefetch, consumer, cur, wexc>>

\* the outcomes of the analyze call the worker tells apart
WorkerOutcomes ==
    {Response(200, JsonObject(Num(0))), Response(200, JsonArray),
     Response(200, NotJson), Response(301, NotJson), Response(500, NotJson),
     Response(500, JsonObject(Absent)), TransportError, Timeout}

(***************************************************************************)
(* chat-service: POST /chat, lines 88-113, and the publish, lines 57-80.   *)
(* Request r runs in trace Tr(r); Sr(r) is its server span and Pr(r) the   *)
(* producer span publish_to_rabbitmq of line 96.                           *)
(***************************************************************************)
Reqs == 1..MaxReqs

\* the requests made in the end-to-end specification
PipeReqs == 1..MaxPipeReqs

Tr(r) == <<"T1", "T2", "T3">>[r]
Sr(r) == <<"S1", "S2", "S3">>[r]
Pr(r) == <<"P1", "P2", "P3">>[r]

NoResponse == [status |-> 0, detail |-> "", classification |-> "", analysis |-> NotJson]

\* the context inject reads: publish_to_rabbitmq is awaited inside the with
\* block of line 96, so the producer span is the current span
CurrentContext_ServerSpan(r) == SpanCtx(Tr(r), Sr(r))

CurrentContext(r) == SpanCtx(Tr(r), Pr(r))

\* the publish of request r is between its first and its last call
PublishRunning(r) == tpc[r] \in {"connect", "channel", "declare", "publish", "close"}

\* line 80: asyncio.to_thread runs _publish_to_rabbitmq_sync in a thread of
\* the default executor, not in the event loop's thread
PublishOffloaded_Inline == FALSE

PublishOffloaded == TRUE

\* the handlers and generators of chat-service are coroutines of one event
\* loop: a step of request r runs when no blocking call of another request
\* holds the loop's thread
LoopFreeFor(r) == PublishOffloaded \/ \A q \in Reqs \ {r} : ~PublishRunning(q)

\* lines 90-99 and 78-80: start the producer span, inject the context into
\* the carrier, hand the publish to a thread and await it
ChatBegin(r) ==
    /\ gpc[r] = "idle"
    /\ LoopFreeFor(r)
    /\ gpc' = [gpc EXCEPT ![r] = "publish_wait"]
    /\ carrier' = [carrier EXCEPT ![r] = inject(CurrentContext(r))]
    /\ tpc' = [tpc EXCEPT ![r] = "connect"]
    /\ gcalls' = [gcalls EXCEPT ![r].publish = @ + 1]
    /\ UNCHANGED <<pconn, gseen, gresp, nlpVars, workerVars, normVars, streamVars, conns>>

\* line 58: pika.BlockingConnection(...), before the try block
PubConnect(r, ok) ==
    /\ tpc[r] = "connect"
    /\ tpc' = [tpc EXCEPT ![r] = IF ok THEN "channel" ELSE "failed"]
    /\ pconn' = [pconn EXCEPT ![r] = IF ok THEN "open" ELSE @]
    /\ conns' = IF ok THEN OpenConnection(conns, r) ELSE conns
    /\ UNCHANGED <<gpc, carrier, gseen, gresp, gcalls, nlpVars, workerVars, normVars, streamVars>>

\* line 62: connection.channel(); on an exception the finally clause of
\* lines 72-73 closes the connection
PubChannel(r, ok) ==
    /\ tpc[r] = "channel"
    /\ tpc' = [tpc EXCEPT ![r] = IF ok THEN "declare" ELSE "failed"]
    /\ pconn' = [pconn EXCEPT ![r] = IF ok THEN @ ELSE "closed"]
    /\ conns' = IF ok THEN conns ELSE CloseConnection(conns, r)
    /\ UNCHANGED <<gpc, carrier, gseen, gresp, gcalls, nlpVars, workerVars, normVars, streamVars>>

\* line 63: channel.queue_declare(queue=queue_name, durable=True)
PubDeclare(r, ok) ==
    /\ tpc[r] = "declare"
    /\ tpc' = [tpc EXCEPT ![r] = IF ok THEN "publish" ELSE "failed"]
    /\ pconn' = [pconn EXCEPT ![r] = IF ok THEN @ ELSE "closed"]
    /\ conns' = IF ok THEN conns ELSE CloseConnection(conns, r)
    /\ UNCHANGED <<gpc, carrier, gseen, gresp, gcalls, nlpVars, workerVars, normVars, streamVars>>

\* lines 64-70: encode the payload, set the headers, basic_publish
PubBasicPublish(r, ok) ==
    /\ tpc[r] = "publish"
    /\ tpc' = [tpc EXCEPT ![r] = IF ok THEN "close" ELSE "failed"]
    /\ pconn' = [pconn EXCEPT ![r] = IF ok THEN @ ELSE "closed"]
    /\ IF ok
       THEN Enqueue(Message(published + 1, r, PikaEncodeHeaders(carrier[r]), EncodeJob))
       ELSE UNCHANGED <<queue, published>>
    /\ conns' = IF ok THEN conns ELSE CloseConnection(conns, r)
    /\ UNCHANGED <<gpc, carrier, gseen, gresp, gcalls, nlpVars, workerSide, normVars, streamVars>>

\* lines 71-73: channel.close(), then connection.close() in the finally clause
PubClose(r, ok) ==
    /\ tpc[r] = "close"
    /\ tpc' = [tpc EXCEPT ![r] = IF ok THEN "done" ELSE "failed"]
    /\ pconn' = [pconn EXCEPT ![r] = "closed"]
    /\ conns' = CloseConnection(conns, r)
    /\ UNCHANGED <<gpc, carrier, gseen, gresp, gcalls, nlpVars, workerVars, normVars, streamVars>>

\* await asyncio.to_thread(...) of line 80 resumes when the thread has ended
PublishEnded_NoAwait(r) == TRUE

PublishEnded(r) == tpc[r] \in {"done", "failed"}

\* the await of line 99 re-raises the exception of the thread
PublishRaised_Swallowed(r) == FALSE

PublishRaised(r) == tpc[r] = "failed"

\* line 99 resumes: an exception of the publish leaves chat_endpoint
\* uncaught (the framework answers 500); otherwise lines 102-106 start the
\* /classify call
ChatPublishReturn(r) ==
    /\ gpc[r] = "publish_wait"
    /\ PublishEnded(r)
    /\ LoopFreeFor(r)
    /\ IF PublishRaised(r)
       THEN /\ gpc' = [gpc EXCEPT ![r] = "done"]
            /\ gresp' = [gresp EXCEPT ![r] = [NoResponse EXCEPT
                                                 !.status = 500,
                                                 !.detail = "Internal Server Error"]]
       ELSE /\ gpc' = [gpc EXCEPT ![r] = "classify_wait"]
            /\ gresp' = gresp
    /\ gcalls' = IF PublishRaised(r) THEN gcalls
                 ELSE [gcalls EXCEPT ![r].classify = @ + 1]
    /\ UNCHANGED <<carrier, tpc, pconn, gseen, nlpVars, workerVars, normVars, streamVars, conns>>

(***************************************************************************)
(* nlp-service: POST /classify, lines 53-72.                               *)
(***************************************************************************)
ShortBelow == 20

\* int(x) of a non-negative number given in tenths
PyInt(tenths) == tenths \div 10

IsShort_Inclusive(length) == length <= ShortBelow

IsShort(length) == length < ShortBelow

\* line 69: analysis.get("length", 0) raises on a body that is no object;
\* int() raises on a length that is no number
LengthRaises(body) == body.form # "object" \/ body.length.t = "text"

\* lines 69-70
Classify(body) ==
    LET length == IF body.length.t = "absent" THEN 0 ELSE PyInt(body.length.n)
    IN IF IsShort(length) THEN "short" ELSE "long"

\* lines 59-72, given what the /analyze call gave
ClassifyResponse(o) ==
    IF HttpError(o)
    THEN [NoResponse EXCEPT !.status = 502, !.detail = "Analyze service unavailable"]
    ELSE IF JsonRaises(o) \/ LengthRaises(o.body)
    THEN [NoResponse EXCEPT !.status = 500, !.detail = "Internal Server Error"]
    ELSE [NoResponse EXCEPT !.status = 200, !.classification = Classify(o.body),
                            !.analysis = o.body]

\* lines 55-62: a request arrived, from chat-service (viaChat) or from
\* another client; the /analyze call is issued
ClassifyBegin(r, viaChat) ==
    /\ viaChat => gpc[r] = "classify_wait"
    /\ npc[r] = "none"
    /\ npc' = [npc EXCEPT ![r] = "analyze_wait"]
    /\ ncalls' = [ncalls EXCEPT ![r] = @ + 1]
    /\ UNCHANGED <<nseen, nresp, chatVars, workerVars, normVars, streamVars, conns>>

\* lines 62-72: the /analyze call returns or raises; the response is made
ClassifyAnalyzeReturn(r, o) ==
    /\ npc[r] = "analyze_wait"
    /\ npc' = [npc EXCEPT ![r] = "done"]
    /\ nseen' = [nseen EXCEPT ![r] = o]
    /\ nresp' = [nresp EXCEPT ![r] = ClassifyResponse(o)]
    /\ UNCHANGED <<ncalls, chatVars, workerVars, normVars, streamVars, conns>>

(***************************************************************************)
(* chat-service: the /classify call returns, lines 106-113.                *)
(***************************************************************************)
\* the response of nlp-service as httpx gives it: a 200 and a 502 carry a
\* JSON object, the framework's 500 carries text
AsHttp(resp) ==
    [kind |-> "response", status |-> resp.status,
     body |-> [form |-> IF resp.status = 500 THEN "text" ELSE "object",
               length |-> Absent, content |-> resp]]

\* a 2xx whose body is no JSON (an intermediary answered)
Garbled == [kind |-> "response", status |-> 200,
            body |-> [form |-> "text", length |-> Absent, content |-> NoResponse]]

NoCall == [kind |-> "none", status |-> 0,
           body |-> [form |-> "text", length |-> Absent, content |-> NoResponse]]

ClassifyCallFailed == [kind |-> "transport", status |-> 0,
                       body |-> [form |-> "text", length |-> Absent, content |-> NoResponse]]

ClassifyCallTimeout == [kind |-> "timeout", status |-> 0,
                        body |-> [form |-> "text", length |-> Absent, content |-> NoResponse]]

\* a 3xx: httpx follows no redirect unless told to
Redirected == [kind |-> "response", status |-> 301,
               body |-> [form |-> "text", length |-> Absent, content |-> NoResponse]]

\* the /classify call fails whatever nlp-service does
ClassifyCallFailures == {ClassifyCallFailed, ClassifyCallTimeout, Garbled, Redirected}

\* what the /classify call of request r can give now, nlp-service serving it
ClassifyCallOutcomes(r) ==
    ClassifyCallFailures \cup (IF npc[r] = "done" THEN {AsHttp(nresp[r])} ELSE {})

\* what the /classify call can give, for any outcome of nlp-service's own
\* /analyze call
ClassifyEndpointOutcomes ==
    ClassifyCallFailures \cup {AsHttp(ClassifyResponse(o)) : o \in AnalyzeOutcomes}

\* except httpx.HTTPError of line 109
CaughtByChat_StatusOnly(w) == w.kind = "response" /\ RaiseForStatus(w)

CaughtByChat(w) == HttpError(w)

\* lines 106-113
ChatResponse(w) ==
    IF CaughtByChat(w)
    THEN [NoResponse EXCEPT !.status = 502, !.detail = "NLP service unavailable"]
    ELSE IF JsonRaises(w)
    THEN [NoResponse EXCEPT !.status = 500, !.detail = "Internal Server Error"]
    ELSE [NoResponse EXCEPT !.status = 200,
                            !.classification = w.body.content.classification,
                            !.analysis = w.body.content.analysis]

\* lines 105-113: the call is made once; whatever it gave, the handler ends
AfterClassifyCall_RetryOnError(w) == IF CaughtByChat(w) THEN "classify_wait" ELSE "done"

AfterClassifyCall(w) == "done"

\* lines 109-111: the except clause logs and raises the 502; the job the
\* request published is left where it is
JobsAfterFailure_Withdrawn(q, r) == SelectSeq(q, LAMBDA m : m.origin # r)

JobsAfterFailure(q, r) == q

\* the handler is left with a response, or is back at line 106 with one
\* more call issued
ChatClassifyReturn(r, w) ==
    /\ gpc[r] = "classify_wait"
    /\ LoopFreeFor(r)
    /\ gpc' = [gpc EXCEPT ![r] = AfterClassifyCall(w)]
    /\ gseen' = [gseen EXCEPT ![r] = w]
    /\ gresp' = [gresp EXCEPT ![r] = IF AfterClassifyCall(w) = "done"
                                     THEN ChatResponse(w) ELSE @]
    /\ gcalls' = IF AfterClassifyCall(w) = "done" THEN gcalls
                 ELSE [gcalls EXCEPT ![r].classify = @ + 1]
    /\ queue' = IF CaughtByChat(w) THEN JobsAfterFailure(queue, r) ELSE queue
    /\ UNCHANGED <<carrier, tpc, pconn, nlpVars, published, workerSide, normVars,
                   streamVars, conns>>

(***************************************************************************)
(* chat-service: GET /chat-stream, lines 116-127.  The generator is cut at *)
(* its yield and at its sleep; the client reads the stream to its end.     *)
(***************************************************************************)
Streams == 1..MaxStreams

\* range(5) of line 121
ChunkCount_Six == 5 + 1

ChunkCount == 5

\* the decimal digits of a small index, as the f-string of line 122 formats it
FormatIndex(i) == <<"0", "1", "2", "3", "4", "5", "6", "7", "8", "9">>[i + 1]

\* f"chunk-{index}\n".encode("utf-8")
Chunk(index) == EncodeUtf8(<<"chunk-", FormatIndex(index), "\n">>)

\* lines 118-127: the handler returns the response; the generator is made
\* and has not run yet
StreamBegin(s) ==
    /\ spc[s] = "none"
    /\ LoopFreeFor(0)
    /\ spc' = [spc EXCEPT ![s] = "next"]
    /\ sidx' = [sidx EXCEPT ![s] = 0]
    /\ UNCHANGED <<sent, chatVars, nlpVars, workerVars, normVars, conns>>

\* lines 121-124: the loop takes the next index and yields its chunk
StreamYield(s) ==
    /\ spc[s] = "next" /\ sidx[s] < ChunkCount
    /\ LoopFreeFor(0)
    /\ sent' = [sent EXCEPT ![s] = Append(@, Chunk(sidx[s]))]
    /\ spc' = [spc EXCEPT ![s] = "sleep"]
    /\ UNCHANGED <<sidx, chatVars, nlpVars, workerVars, normVars, conns>>

\* line 125: asyncio.sleep(0.5) returns, the loop goes on
StreamSleep(s) ==
    /\ spc[s] = "sleep"
    /\ LoopFreeFor(0)
    /\ sidx' = [sidx EXCEPT ![s] = @ + 1]
    /\ spc' = [spc EXCEPT ![s] = "next"]
    /\ UNCHANGED <<sent, chatVars, nlpVars, workerVars, normVars, conns>>

\* line 121: range(5) is exhausted, the generator returns and the response
\* ends
StreamEnd(s) ==
    /\ spc[s] = "next" /\ sidx[s] >= ChunkCount
    /\ LoopFreeFor(0)
    /\ spc' = [spc EXCEPT ![s] = "ended"]
    /\ UNCHANGED <<sidx, sent, chatVars, nlpVars, workerVars, normVars, conns>>

StreamInit ==
    /\ spc = [s \in Streams |-> "none"]
    /\ sidx = [s \in Streams |-> 0]
    /\ sent = [s \in Streams |-> <<>>]

ServicesInit ==
    /\ StreamInit
    /\ gpc = [r \in Reqs |-> "idle"]
    /\ carrier = [r \in Reqs |-> <<>>]
    /\ tpc = [r \in Reqs |-> "none"]
    /\ pconn = [r \in Reqs |-> "none"]
    /\ gseen = [r \in Reqs |-> NoCall]
    /\ gresp = [r \in Reqs |-> NoResponse]
    /\ gcalls = [r \in Reqs |-> [publish |-> 0, classify |-> 0]]
    /\ npc = [r \in Reqs |-> "none"]
    /\ nseen = [r \in Reqs |-> Timeout]
    /\ nresp = [r \in Reqs |-> NoResponse]
    /\ ncalls = [r \in Reqs |-> 0]

WorkerInit ==
    /\ queue = <<>>
    /\ dlv = <<>>
    /\ inbox = <<>>
    /\ published = 0
    /\ wpc = "connect"
    /\ wconn = "none"
    /\ wchan = "none"
    /\ prefetch = 0
    /\ consumer = FALSE
    /\ cur = 0
    /\ wexc = ""
    /\ conns = {}

(***************************************************************************)
(* Header normalisation alone: lines 68-69 of on_message applied to one    *)
(* header mapping.                                                         *)
(***************************************************************************)
NormPending == [done |-> FALSE, raised |-> FALSE, ctx |-> NoParent]

NormIdle ==
    /\ normIn = NoHeaders
    /\ normOut = NormPending

NormKeys ==
    {Str(TraceParentKey), Bytes(TraceParentKey), Bytes(<<"traceparent", BadByte>>),
     Str(<<"other">>)}

NormValues ==
    {Str(<<"00", "T1", "S1", "01">>), Bytes(<<"00", "T2", "S2", "01">>),
     Bytes(<<"00", BadByte, "T1", "S1", "01">>), Bytes(<<BadByte>>),
     Str(<<"00", ZeroTrace, "S1", "01">>), Str(<<"ff", "T1", "S1", "01">>),
     Str(<<"junk">>), Str(<<>>), NoneVal, IntVal(<<"7">>)}

\* the dicts of at most n entries, keys distinct
RECURSIVE DictsUpTo(_)
DictsUpTo(n) ==
    IF n = 0 THEN {<<>>}
    ELSE LET smaller == DictsUpTo(n - 1)
         IN smaller \cup
            {Append(d, <<k, v>>) : d \in {x \in smaller : Len(x) = n - 1},
                                   k \in NormKeys, v \in NormValues}

DistinctKeys(d) == \A i, j \in 1..Len(d) : d[i][1] = d[j][1] => i = j

HeaderInputs ==
    {NoHeaders} \cup {Headers(d) : d \in {x \in DictsUpTo(MaxHdrEntries) : DistinctKeys(x)}}

NormalizeAndExtract(headers) ==
    LET n == _normalize_headers(headers)
    IN IF n.raised THEN [done |-> TRUE, raised |-> TRUE, ctx |-> NoParent]
       ELSE [done |-> TRUE, raised |-> FALSE, ctx |-> extract(n.dict)]

NormApply ==
    /\ ~normOut.done
    /\ normOut' = NormalizeAndExtract(normIn)
    /\ UNCHANGED <<normIn, workerVars, chatVars, nlpVars, streamVars, conns>>

vars == <<queue, dlv, inbox, published, wpc, wconn, wchan, prefetch, consumer,
          cur, wexc, normIn, normOut, gpc, carrier, tpc, pconn, gseen, gresp,
          gcalls, npc, nseen, nresp, ncalls, spc, sidx, sent, conns>>

InitNorm ==
    /\ WorkerInit
    /\ ServicesInit
    /\ normIn \in HeaderInputs
    /\ normOut = NormPending

NextNorm == NormApply

SpecNorm == InitNorm /\ [][NextNorm]_vars

(***************************************************************************)
(* SpecWorker: the worker and the broker, with foreign messages.           *)
(***************************************************************************)
InitWorker == WorkerInit /\ NormIdle /\ ServicesInit

NextWorker ==
    \/ \E fm \in ForeignMessages : ForeignPublish(fm) /\ UNCHANGED offWorker
    \/ \E ok \in BOOLEAN : WorkerConnect(ok) /\ UNCHANGED offWorker
    \/ \E ok \in BOOLEAN : WorkerChannel(ok) /\ UNCHANGED offWorker
    \/ \E ok \in BOOLEAN : WorkerDeclare(ok) /\ UNCHANGED offWorker
    \/ \E ok \in BOOLEAN : WorkerQos(ok) /\ UNCHANGED offWorker
    \/ \E ok \in BOOLEAN : WorkerConsume(ok) /\ UNCHANGED offWorker
    \/ Deliver /\ UNCHANGED offWorker
    \/ OnMessageEnter /\ UNCHANGED offWorker
    \/ \E o \in WorkerOutcomes : AnalyzeReturn(o) /\ UNCHANGED offWorker
    \/ \E ok \in BOOLEAN : Ack(ok) /\ UNCHANGED offWorker
    \/ \E ok \in BOOLEAN : Nack(ok) /\ UNCHANGED offWorker
    \/ Interrupt /\ UNCHANGED offWorker
    \/ \E ok \in BOOLEAN : WorkerFinally(ok) /\ UNCHANGED offWorker

SpecWorker == InitWorker /\ [][NextWorker]_vars

(***************************************************************************)
(* SpecBurst: the worker behind a queue that fills faster than it drains.  *)
(* The analyze endpoint fails for every second job.                        *)
(***************************************************************************)
BurstPublish ==
    /\ published < MaxBurst
    /\ Enqueue(Message(published + 1, 0, GoodHeaders, EncodeJob))
    /\ UNCHANGED conns
    /\ UNCHANGED <<dlv, inbox, wpc, wconn, wchan, prefetch, consumer, cur, wexc>>

BurstOutcome(t) ==
    IF dlv[t].msg.id % 2 = 0 THEN Timeout ELSE Response(200, JsonObject(Num(50)))

InitBurst == WorkerInit /\ NormIdle /\ ServicesInit

NextBurst ==
    \/ BurstPublish /\ UNCHANGED offWorker
    \/ \E ok \in BOOLEAN : WorkerConnect(ok) /\ UNCHANGED offWorker
    \/ \E ok \in BOOLEAN : WorkerChannel(ok) /\ UNCHANGED offWorker
    \/ \E ok \in BOOLEAN : WorkerDeclare(ok) /\ UNCHANGED offWorker
    \/ \E ok \in BOOLEAN : WorkerQos(ok) /\ UNCHANGED offWorker
    \/ \E ok \in BOOLEAN : WorkerConsume(ok) /\ UNCHANGED offWorker
    \/ Deliver /\ UNCHANGED offWorker
    \/ OnMessageEnter /\ UNCHANGED offWorker
    \/ AnalyzeReturn(BurstOutcome(cur)) /\ UNCHANGED offWorker
    \/ Ack(TRUE) /\ UNCHANGED offWorker
    \/ Nack(TRUE) /\ UNCHANGED offWorker
    \/ Interrupt /\ UNCHANGED offWorker
    \/ WorkerFinally(TRUE) /\ UNCHANGED offWorker

SpecBurst == InitBurst /\ [][NextBurst]_vars

(***************************************************************************)
(* SpecChat: chat-service under concurrent POST /chat requests.  The jobs  *)
(* stay in the queue; the /classify endpoint answers with any outcome      *)
(* nlp-service or the network can give.                                    *)
(***************************************************************************)
InitChat == WorkerInit /\ NormIdle /\ ServicesInit

NextChat ==
    \/ \E r \in Reqs : ChatBegin(r)
    \/ \E r \in Reqs, ok \in BOOLEAN : PubConnect(r, ok)
    \/ \E r \in Reqs, ok \in BOOLEAN : PubChannel(r, ok)
    \/ \E r \in Reqs, ok \in BOOLEAN : PubDeclare(r, ok)
    \/ \E r \in Reqs, ok \in BOOLEAN : PubBasicPublish(r, ok)
    \/ \E r \in Reqs, ok \in BOOLEAN : PubClose(r, ok)
    \/ \E r \in Reqs : ChatPublishReturn(r)
    \/ \E r \in Reqs, w \in ClassifyEndpointOutcomes : ChatClassifyReturn(r, w)

SpecChat == InitChat /\ [][NextChat]_vars

(***************************************************************************)
(* SpecNlp: nlp-service under concurrent POST /classify requests, for      *)
(* every outcome of the /analyze call.                                     *)
(***************************************************************************)
InitNlp == WorkerInit /\ NormIdle /\ ServicesInit

NextNlp ==
    \/ \E r \in Reqs : ClassifyBegin(r, FALSE)
    \/ \E r \in Reqs, o \in AnalyzeOutcomes : ClassifyAnalyzeReturn(r, o)

SpecNlp == InitNlp /\ [][NextNlp]_vars

(***************************************************************************)
(* SpecStream: concurrent GET /chat-stream responses.  The event loop runs *)
(* every generator that can go on: the sleep returns and the server asks   *)
(* for the next chunk.                                                     *)
(***************************************************************************)
InitStream == WorkerInit /\ NormIdle /\ ServicesInit

NextStream ==
    \/ \E s \in Streams : StreamBegin(s)
    \/ \E s \in Streams : StreamYield(s)
    \/ \E s \in Streams : StreamSleep(s)
    \/ \E s \in Streams : StreamEnd(s)

StreamRuns(s) == StreamYield(s) \/ StreamSleep(s) \/ StreamEnd(s)

SpecStream ==
    /\ InitStream
    /\ [][NextStream]_vars
    /\ \A s \in Streams : WF_vars(StreamRuns(s))

(***************************************************************************)
(* SpecConn: concurrent POST /chat requests next to the worker, all on one *)
(* broker.  What the HTTP calls give has no part in who holds which        *)
(* connection: the /classify call fails and the analyze endpoint answers.  *)
(***************************************************************************)
InitConn == WorkerInit /\ NormIdle /\ ServicesInit

NextConn ==
    \/ \E r \in Reqs : ChatBegin(r)
    \/ \E r \in Reqs, ok \in BOOLEAN : PubConnect(r, ok)
    \/ \E r \in Reqs, ok \in BOOLEAN : PubChannel(r, ok)
    \/ \E r \in Reqs, ok \in BOOLEAN : PubDeclare(r, ok)
    \/ \E r \in Reqs, ok \in BOOLEAN : PubBasicPublish(r, ok)
    \/ \E r \in Reqs, ok \in BOOLEAN : PubClose(r, ok)
    \/ \E r \in Reqs : ChatPublishReturn(r)
    \/ \E r \in Reqs : ChatClassifyReturn(r, ClassifyCallFailed)
    \/ \E ok \in BOOLEAN : WorkerConnect(ok) /\ UNCHANGED offWorker
    \/ \E ok \in BOOLEAN : WorkerChannel(ok) /\ UNCHANGED offWorker
    \/ \E ok \in BOOLEAN : WorkerDeclare(ok) /\ UNCHANGED offWorker
    \/ \E ok \in BOOLEAN : WorkerQos(ok) /\ UNCHANGED offWorker
    \/ \E ok \in BOOLEAN : WorkerConsume(ok) /\ UNCHANGED offWorker
    \/ Deliver /\ UNCHANGED offWorker
    \/ OnMessageEnter /\ UNCHANGED offWorker
    \/ AnalyzeReturn(Response(200, JsonObject(Num(50)))) /\ UNCHANGED offWorker
    \/ Ack(TRUE) /\ UNCHANGED offWorker
    \/ Interrupt /\ UNCHANGED offWorker
    \/ \E ok \in BOOLEAN : WorkerFinally(ok) /\ UNCHANGED offWorker

SpecConn == InitConn /\ [][NextConn]_vars

(***************************************************************************)
(* SpecJobs: POST /chat requests and the worker that takes their jobs.     *)
(* The worker is a process of its own and the broker pushes what is ready: *)
(* a step the worker can take is taken.  The analyze call returns or times *)
(* out after 5 seconds.                                                    *)
(***************************************************************************)
JobsClassifyOutcomes ==
    {ClassifyCallFailed, AsHttp(ClassifyResponse(Response(200, JsonObject(Num(50)))))}

JobsAnalyzeOutcomes == {Response(200, JsonObject(Num(50))), Timeout}

InitJobs == WorkerInit /\ NormIdle /\ ServicesInit

NextJobs ==
    \/ \E r \in PipeReqs : ChatBegin(r)
    \/ \E r \in PipeReqs, ok \in BOOLEAN : PubConnect(r, ok)
    \/ \E r \in PipeReqs, ok \in BOOLEAN : PubChannel(r, ok)
    \/ \E r \in PipeReqs, ok \in BOOLEAN : PubDeclare(r, ok)
    \/ \E r \in PipeReqs, ok \in BOOLEAN : PubBasicPublish(r, ok)
    \/ \E r \in PipeReqs, ok \in BOOLEAN : PubClose(r, ok)
    \/ \E r \in PipeReqs : ChatPublishReturn(r)
    \/ \E r \in PipeReqs, w \in JobsClassifyOutcomes : ChatClassifyReturn(r, w)
    \/ \E ok \in BOOLEAN : WorkerConnect(ok) /\ UNCHANGED offWorker
    \/ \E ok \in BOOLEAN : WorkerChannel(ok) /\ UNCHANGED offWorker
    \/ \E ok \in BOOLEAN : WorkerDeclare(ok) /\ UNCHANGED offWorker
    \/ \E ok \in BOOLEAN : WorkerQos(ok) /\ UNCHANGED offWorker
    \/ \E ok \in BOOLEAN : WorkerConsume(ok) /\ UNCHANGED offWorker
    \/ Deliver /\ UNCHANGED offWorker
    \/ OnMessageEnter /\ UNCHANGED offWorker
    \/ \E o \in JobsAnalyzeOutcomes : AnalyzeReturn(o) /\ UNCHANGED offWorker
    \/ Ack(TRUE) /\ UNCHANGED offWorker
    \/ Nack(TRUE) /\ UNCHANGED offWorker
    \/ Interrupt /\ UNCHANGED offWorker
    \/ \E ok \in BOOLEAN : WorkerFinally(ok) /\ UNCHANGED offWorker

\* the worker's next step, whichever it is; an interrupt is no step of its own
WorkerRuns ==
    \/ \E ok \in BOOLEAN : WorkerConnect(ok) /\ UNCHANGED offWorker
    \/ \E ok \in BOOLEAN : WorkerChannel(ok) /\ UNCHANGED offWorker
    \/ \E ok \in BOOLEAN : WorkerDeclare(ok) /\ UNCHANGED offWorker
    \/ \E ok \in BOOLEAN : WorkerQos(ok) /\ UNCHANGED offWorker
    \/ \E ok \in BOOLEAN : WorkerConsume(ok) /\ UNCHANGED offWorker
    \/ Deliver /\ UNCHANGED offWorker
    \/ OnMessageEnter /\ UNCHANGED offWorker
    \/ \E o \in JobsAnalyzeOutcomes : AnalyzeReturn(o) /\ UNCHANGED offWorker
    \/ Ack(TRUE) /\ UNCHANGED offWorker
    \/ Nack(TRUE) /\ UNCHANGED offWorker
    \/ \E ok \in BOOLEAN : WorkerFinally(ok) /\ UNCHANGED offWorker

SpecJobs == InitJobs /\ [][NextJobs]_vars /\ WF_vars(WorkerRuns)

(***************************************************************************)
(* SpecSync: the synchronous path alone.  chat-service publishes and calls *)
(* /classify, nlp-service calls /analyze, for every outcome of the analyze *)
(* endpoint and of the /classify call.                                     *)
(***************************************************************************)
InitSync == WorkerInit /\ NormIdle /\ ServicesInit

NextSync ==
    \/ \E r \in PipeReqs : ChatBegin(r)
    \/ \E r \in PipeReqs, ok \in BOOLEAN : PubConnect(r, ok)
    \/ \E r \in PipeReqs, ok \in BOOLEAN : PubChannel(r, ok)
    \/ \E r \in PipeReqs, ok \in BOOLEAN : PubDeclare(r, ok)
    \/ \E r \in PipeReqs, ok \in BOOLEAN : PubBasicPublish(r, ok)
    \/ \E r \in PipeReqs, ok \in BOOLEAN : PubClose(r, ok)
    \/ \E r \in PipeReqs : ChatPublishReturn(r)
    \/ \E r \in PipeReqs : ClassifyBegin(r, TRUE)
    \/ \E r \in PipeReqs, o \in AnalyzeOutcomes : ClassifyAnalyzeReturn(r, o)
    \/ \E r \in PipeReqs : \E w \in ClassifyCallOutcomes(r) : ChatClassifyReturn(r, w)

SpecSync == InitSync /\ [][NextSync]_vars

(***************************************************************************)
(* Spec: the three services, the broker and the analyze endpoint, end to   *)
(* end.  The analyze endpoint answers with one outcome of each kind.       *)
(***************************************************************************)
PipelineOutcomes == {Response(200, JsonObject(Num(50))), Response(500, NotJson), Timeout}

Init == WorkerInit /\ NormIdle /\ ServicesInit

Next ==
    \/ \E r \in PipeReqs : ChatBegin(r)
    \/ \E r \in PipeReqs, ok \in BOOLEAN : PubConnect(r, ok)
    \/ \E r \in PipeReqs, ok \in BOOLEAN : PubChannel(r, ok)
    \/ \E r \in PipeReqs, ok \in BOOLEAN : PubDeclare(r, ok)
    \/ \E r \in PipeReqs, ok \in BOOLEAN : PubBasicPublish(r, ok)
    \/ \E r \in PipeReqs, ok \in BOOLEAN : PubClose(r, ok)
    \/ \E r \in PipeReqs : ChatPublishReturn(r)
    \/ \E r \in PipeReqs : ClassifyBegin(r, TRUE)
    \/ \E r \in PipeReqs, o \in PipelineOutcomes : ClassifyAnalyzeReturn(r, o)
    \/ \E r \in PipeReqs : \E w \in ClassifyCallOutcomes(r) : ChatClassifyReturn(r, w)
    \/ \E ok \in BOOLEAN : WorkerConnect(ok) /\ UNCHANGED offWorker
    \/ \E ok \in BOOLEAN : WorkerChannel(ok) /\ UNCHANGED offWorker
    \/ \E ok \in BOOLEAN : WorkerDeclare(ok) /\ UNCHANGED offWorker
    \/ \E ok \in BOOLEAN : WorkerQos(ok) /\ UNCHANGED offWorker
    \/ \E ok \in BOOLEAN : WorkerConsume(ok) /\ UNCHANGED offWorker
    \/ Deliver /\ UNCHANGED offWorker
    \/ OnMessageEnter /\ UNCHANGED offWorker
    \/ \E o \in PipelineOutcomes : AnalyzeReturn(o) /\ UNCHANGED offWorker
    \/ \E ok \in BOOLEAN : Ack(ok) /\ UNCHANGED offWorker
    \/ \E ok \in BOOLEAN : Nack(ok) /\ UNCHANGED offWorker
    \/ Interrupt /\ UNCHANGED offWorker
    \/ \E ok \in BOOLEAN : WorkerFinally(ok) /\ UNCHANGED offWorker

Spec == Init /\ [][Next]_vars

(***************************************************************************)
(* Claims about the worker's callback.                                     *)
(***************************************************************************)
Left(t) == dlv[t].left # "no"

NormRaised(t) == _normalize_headers(dlv[t].props).raised

\* the processing of delivery t failed: header normalisation raised, the
\* payload did not decode, or the analyze call failed
Failed(t) ==
    \/ NormRaised(t)
    \/ ~DecodePayload(dlv[t].msg.body)
    \/ dlv[t].analyze \in {"status", "transport", "timeout", "nonjson"}

\* C1: once on_message is left for a delivery, exactly one of basic_ack and
\* basic_nack was invoked for it.
C1_ExactlyOneTerminal ==
    \A t \in Tags : Left(t) => dlv[t].ack + dlv[t].nack = 1

\* C2: a delivery whose processing failed got exactly one basic_nack with
\* requeue=False and no basic_ack; no message is requeued or delivered twice.
C2_FailureRejectsOnce ==
    /\ \A t \in Tags : Left(t) /\ Failed(t) =>
           dlv[t].nack = 1 /\ dlv[t].ack = 0 /\ ~dlv[t].requeue
    /\ \A t \in Tags : dlv[t].state # "Requeued"
    /\ \A t, u \in Tags : dlv[t].msg.id = dlv[u].msg.id => t = u

\* C3 as stated: basic_ack only after an analyze call that returned 2xx, and
\* every delivery whose analyze call returned 2xx is acknowledged by the time
\* the callback is left.
C3_AckIffAnalyze2xx ==
    \A t \in Tags :
        /\ dlv[t].ack > 0 => dlv[t].analyze \in {"ok", "nonjson"}
        /\ Left(t) /\ dlv[t].analyze \in {"ok", "nonjson"} => dlv[t].ack > 0

\* C3 amended: basic_ack only after the payload decoded and the analyze call
\* returned 2xx with a JSON body, and every such delivery has had basic_ack
\* invoked when the callback is left, unless an interrupt cut the callback.
C3_AckIffAnalyzeJson ==
    \A t \in Tags :
        /\ dlv[t].ack > 0 =>
               dlv[t].analyze = "ok" /\ DecodePayload(dlv[t].msg.body)
        /\ dlv[t].left \in {"return", "raise"} /\ dlv[t].analyze = "ok" =>
               dlv[t].ack > 0

C3_Witness ==
    \E t \in Tags :
        /\ dlv[t].analyze = "ok" /\ dlv[t].left = "return"
        /\ dlv[t].ack = 1 /\ dlv[t].nack = 0 /\ dlv[t].state = "Acknowledged"

\* C9: header normalisation followed by extract never raises.
C9_NormalizeNeverRaises == normOut.done => ~normOut.raised

(***************************************************************************)
(* Claims about the prefetch bound.                                        *)
(***************************************************************************)
\* C4: the deliveries made to the worker and neither acknowledged nor
\* rejected are never more than 10.
C4_PrefetchBound == Cardinality(Unacked) <= 10

C4_Witness == Cardinality(Unacked) = 10 /\ queue # <<>> /\ wpc = "analyze"

(***************************************************************************)
(* Claims about POST /chat.                                                *)
(***************************************************************************)
JobQueued(r) == \E i \in 1..Len(queue) : queue[i].origin = r

ClassifyStarted(r) == gpc[r] = "classify_wait" \/ gseen[r].kind # "none"

\* C5: the /classify call of a request starts only when its publish has
\* ended with the job in the queue and the connection closed; the response
\* comes only after the /classify call has ended; while the publish runs the
\* request does nothing else.
C5_StepsInOrder ==
    \A r \in Reqs :
        /\ ClassifyStarted(r) =>
               tpc[r] = "done" /\ pconn[r] = "closed" /\ JobQueued(r)
        /\ gresp[r].status \in {200, 502} =>
               gpc[r] = "done" /\ gseen[r].kind # "none"
        /\ PublishRunning(r) => gpc[r] = "publish_wait" /\ gresp[r] = NoResponse

C5_Witness ==
    \E r \in Reqs :
        /\ gpc[r] = "done" /\ gresp[r].status = 200
        /\ tpc[r] = "done" /\ gseen[r].kind = "response"

\* C6: a request whose publish failed issues no /classify call and ends
\* with neither the 200 nor the 502 response: the exception leaves the
\* handler.
C6_PublishFailureAborts ==
    \A r \in Reqs :
        tpc[r] = "failed" =>
            /\ gseen[r].kind = "none"
            /\ gpc[r] \in {"publish_wait", "done"}
            /\ gresp[r].status \notin {200, 502}
            /\ gpc[r] = "done" => gresp[r].status = 500

C6_Witness ==
    \E r \in Reqs :
        /\ tpc[r] = "failed" /\ gpc[r] = "done" /\ gresp[r].status = 500
        /\ JobQueued(r)

\* the /classify call failed: a transport error, a timeout or a status
\* that is not 2xx
ClassifyCallBad(w) ==
    w.kind \in {"transport", "timeout"} \/ (w.kind = "response" /\ ~Is2xx(w.status))

\* C7: after a publish that succeeded, a /classify call that failed gives
\* 502 "NLP service unavailable", and 200 {ok, classification} is given only
\* for a 2xx response, with its decoded body.
C7_DownstreamFailureIs502 ==
    \A r \in Reqs :
        gpc[r] = "done" /\ tpc[r] = "done" =>
            /\ ClassifyCallBad(gseen[r]) =>
                   gresp[r].status = 502 /\ gresp[r].detail = "NLP service unavailable"
            /\ gresp[r].status = 200 =>
                   /\ gseen[r].kind = "response" /\ Is2xx(gseen[r].status)
                   /\ gresp[r].classification = gseen[r].body.content.classification
                   /\ gresp[r].analysis = gseen[r].body.content.analysis

C7_Witness ==
    \E r \in Reqs :
        /\ gpc[r] = "done" /\ tpc[r] = "done"
        /\ gseen[r].kind = "response" /\ gseen[r].status = 502
        /\ gresp[r].status = 502 /\ gresp[r].detail = "NLP service unavailable"

(***************************************************************************)
(* Claims about the trace context.                                         *)
(***************************************************************************)
\* C8: the consumer span of a job published by request r is in the trace
\* of r, its parent is the producer span of r, and the headers the worker
\* normalised are the carrier the request injected.
C8_ContextRoundTrip ==
    \A t \in Tags :
        dlv[t].span.started /\ dlv[t].msg.origin \in Reqs =>
            /\ dlv[t].span.trace = Tr(dlv[t].msg.origin)
            /\ dlv[t].span.parent = Pr(dlv[t].msg.origin)
            /\ _normalize_headers(dlv[t].props).dict = carrier[dlv[t].msg.origin]

C8_Witness ==
    \E t \in Tags :
        /\ dlv[t].span.started /\ dlv[t].msg.origin \in Reqs
        /\ dlv[t].span.trace = "T1" /\ dlv[t].span.parent = "P1"

(***************************************************************************)
(* Claims about POST /classify.                                            *)
(***************************************************************************)
\* the analyze call gave a 2xx JSON object whose length is a number or absent
NumericOrAbsent(o) ==
    /\ o.kind = "response" /\ Is2xx(o.status)
    /\ o.body.form = "object" /\ o.body.length.t \in {"num", "absent"}

\* C10: for such a response /classify answers 200 with "short" when the
\* length (0 when absent) is below 20, "long" otherwise, and with the
\* analyze body as the analysis.  Lengths are in tenths: 200 is 20.
C10_ClassificationBoundary ==
    \A r \in Reqs :
        npc[r] = "done" /\ NumericOrAbsent(nseen[r]) =>
            /\ nresp[r].status = 200
            /\ nresp[r].classification =
                   IF nseen[r].body.length.n < 200 THEN "short" ELSE "long"
            /\ nresp[r].analysis = nseen[r].body

C10_Witness ==
    /\ \E r \in Reqs : /\ npc[r] = "done" /\ nseen[r] = Response(200, JsonObject(Num(190)))
                       /\ nresp[r].classification = "short"
    /\ \E r \in Reqs : /\ npc[r] = "done" /\ nseen[r] = Response(200, JsonObject(Num(200)))
                       /\ nresp[r].classification = "long"

(***************************************************************************)
(* Claims about GET /chat-stream.                                          *)
(***************************************************************************)
FiveChunks ==
    << <<"chunk-", "0", "\n">>, <<"chunk-", "1", "\n">>, <<"chunk-", "2", "\n">>,
       <<"chunk-", "3", "\n">>, <<"chunk-", "4", "\n">> >>

IsPrefix(a, b) == Len(a) <= Len(b) /\ \A i \in 1..Len(a) : a[i] = b[i]

\* C11: what a stream has emitted is always a prefix of chunk-0 .. chunk-4,
\* each followed by a newline; a stream that ended has emitted all five; and
\* every stream that began ends.
C11_FiveChunksThenEnd ==
    /\ [](\A s \in Streams :
            /\ IsPrefix(sent[s], FiveChunks)
            /\ spc[s] = "ended" => sent[s] = FiveChunks)
    /\ \A s \in Streams : (spc[s] # "none") ~> (spc[s] = "ended")

C11_Witness ==
    \E s, u \in Streams :
        /\ spc[s] = "ended" /\ sent[s] = FiveChunks
        /\ spc[u] = "sleep" /\ Len(sent[u]) = 3

(***************************************************************************)
(* Claims about the worker's main.                                         *)
(***************************************************************************)
\* C12: when main has ended, the connection and the channel the worker
\* opened are closed.
C12_ClosedOnEveryExit ==
    wpc = "exited" => wconn # "open" /\ wchan # "open"

(***************************************************************************)
(* Claims about concurrent POST /chat requests.                            *)
(***************************************************************************)
\* the publish of request r runs and its handler waits for it
WaitsForPublish(r) == gpc[r] = "publish_wait" /\ PublishRunning(r)

\* the next step of request q can be taken: it can start; its own publish
\* can go on or be resumed from; its /classify call can return and the
\* response be made
CanGoOn(q) ==
    CASE gpc[q] = "idle" -> ENABLED ChatBegin(q)
      [] gpc[q] = "publish_wait" ->
           \/ ENABLED (\E ok \in BOOLEAN :
                          \/ PubConnect(q, ok) \/ PubChannel(q, ok) \/ PubDeclare(q, ok)
                          \/ PubBasicPublish(q, ok) \/ PubClose(q, ok))
           \/ ENABLED ChatPublishReturn(q)
      [] gpc[q] = "classify_wait" ->
           ENABLED (\E w \in ClassifyEndpointOutcomes : ChatClassifyReturn(q, w))
      [] OTHER -> TRUE

\* C13: while a request waits for its publish, every other request can take
\* its next step; and the waiting request has issued no /classify call and
\* has no response before its publish has ended.
C13_AwaitedNotBlocking ==
    \A r \in Reqs :
        /\ WaitsForPublish(r) => \A q \in Reqs \ {r} : CanGoOn(q)
        /\ WaitsForPublish(r) => gseen[r].kind = "none" /\ gresp[r] = NoResponse
        /\ gpc[r] = "classify_wait" => ~PublishRunning(r) /\ tpc[r] = "done"

\* request q published, was classified and answered, all after the job of
\* request r was queued and before the publish of r ended
C13_Witness ==
    \E r, q \in Reqs :
        /\ r # q /\ WaitsForPublish(r) /\ tpc[r] = "close"
        /\ gpc[q] = "done" /\ gresp[q].status = 200
        /\ \E i, j \in 1..Len(queue) :
               i < j /\ queue[i].origin = r /\ queue[j].origin = q

(***************************************************************************)
(* Claims about connections.                                               *)
(***************************************************************************)
HeldBy(who) == {c \in conns : who \in c.holders}

OpenPublisherConns == {c \in conns : c.state = "open" /\ c.holders \cap Reqs # {}}

\* C14: a publish holds at most one connection, one it opened itself; that
\* connection is closed once the publish has ended, however it ended; every
\* connection has one holder, so none is shared between two publishes or
\* between a publish and the worker; and the open connections of publishes
\* are never more than the publishes that run.
C14_OwnConnectionPerPublish ==
    /\ \A r \in Reqs :
           /\ Cardinality(HeldBy(r)) <= 1
           /\ \A c \in HeldBy(r) : c.id = r
           /\ PublishEnded(r) => \A c \in HeldBy(r) : c.state = "closed"
           /\ tpc[r] \in {"channel", "declare", "publish", "close"} =>
                  \E c \in HeldBy(r) : c.state = "open"
    /\ \A c \in conns : Cardinality(c.holders) = 1
    /\ \A c \in HeldBy(WorkerId) : c.id = WorkerId
    /\ Cardinality(OpenPublisherConns) <= Cardinality({r \in Reqs : PublishRunning(r)})

\* a publish runs with its connection open while another has failed, its
\* connection closed, and the worker processes a job on a connection of its
\* own
C14_Witness ==
    \E r, q \in Reqs :
        /\ tpc[r] = "close" /\ \E c \in HeldBy(r) : c.state = "open"
        /\ tpc[q] = "failed" /\ \E c \in HeldBy(q) : c.state = "closed"
        /\ wpc = "analyze" /\ \E c \in HeldBy(WorkerId) : c.state = "open"
        /\ Cardinality(conns) = 3

(***************************************************************************)
(* Claims about the order of processing.                                   *)
(***************************************************************************)
\* on_message was called for delivery t
Entered(t) == dlv[t].span.started \/ Left(t)

\* C15: at most one delivery is in Processing; while the callback runs it is
\* the delivery the callback runs for; and on_message is called for a
\* delivery only when it was called for, and left for, every delivery made
\* before it.
C15_OneAtATimeInOrder ==
    /\ Cardinality({t \in Tags : dlv[t].state = "Processing"}) <= 1
    /\ \A t \in Tags :
           dlv[t].state = "Processing" /\ wpc \in {"analyze", "ack", "nack"} => t = cur
    /\ \A t, u \in Tags : t < u /\ Entered(u) => Entered(t) /\ Left(t)

\* ten deliveries are outstanding, one of them in Processing and nine still
\* in Received, after two earlier ones were settled
C15_Witness ==
    /\ Cardinality(Unacked) = 10
    /\ Cardinality({t \in Tags : dlv[t].state = "Processing"}) = 1
    /\ Cardinality({t \in Tags : dlv[t].state = "Received"}) = 9
    /\ \E t \in Tags : dlv[t].state = "Acknowledged"
    /\ \E t \in Tags : dlv[t].state = "Rejected"

(***************************************************************************)
(* Claims about retries.                                                   *)
(***************************************************************************)
\* the ids of the jobs of request r the broker has ever held
JobsOf(r) ==
    {queue[i].id : i \in {j \in 1..Len(queue) : queue[j].origin = r}}
      \cup {dlv[t].msg.id : t \in {u \in Tags : dlv[u].msg.origin = r}}

\* C16: a POST /chat request issues at most one publish and at most one
\* /classify call and puts at most one job in the queue; a POST /classify
\* request issues at most one /analyze call; the worker issues at most one
\* /analyze call for a delivery.
C16_NoRetry ==
    /\ \A r \in Reqs :
           /\ gcalls[r].publish <= 1 /\ gcalls[r].classify <= 1
           /\ Cardinality(JobsOf(r)) <= 1
           /\ ncalls[r] <= 1
    /\ \A t \in Tags : dlv[t].calls <= 1

\* every call failed and none was issued again: the request ended with 502
\* after one publish and one /classify call, /classify ended with 502 after
\* one /analyze call, and the job was rejected after one /analyze call
C16_Witness ==
    \E r \in Reqs, t \in Tags :
        /\ gpc[r] = "done" /\ gresp[r].status = 502
        /\ gcalls[r] = [publish |-> 1, classify |-> 1]
        /\ npc[r] = "done" /\ nresp[r].status = 502 /\ ncalls[r] = 1
        /\ dlv[t].msg.origin = r /\ dlv[t].state = "Rejected"
        /\ dlv[t].analyze = "timeout" /\ dlv[t].calls = 1

(***************************************************************************)
(* Claims about an analyze response that is 2xx and no JSON.               *)
(***************************************************************************)
\* C17: for an /analyze response that is 2xx with a body that is no JSON,
\* /classify answers 502 "Analyze service unavailable", and the worker
\* rejects the delivery without requeue and does not acknowledge it.
C17_NonJsonIsUnavailable ==
    /\ \A r \in Reqs :
           /\ npc[r] = "done" /\ nseen[r].kind = "response"
           /\ Is2xx(nseen[r].status) /\ nseen[r].body.form = "text"
           => nresp[r].status = 502 /\ nresp[r].detail = "Analyze service unavailable"
    /\ \A t \in Tags :
           dlv[t].analyze = "nonjson" /\ dlv[t].left = "return" =>
               dlv[t].nack = 1 /\ dlv[t].ack = 0 /\ ~dlv[t].requeue

(***************************************************************************)
(* Claims about a failure of the analyze endpoint, seen through two hops.  *)
(***************************************************************************)
\* the /analyze call failed: a transport error, a timeout or a status that
\* is not 2xx
AnalyzeFailed(o) ==
    o.kind \in {"transport", "timeout"} \/ (o.kind = "response" /\ ~Is2xx(o.status))

\* C18: when the /analyze call of a /classify request failed, /classify
\* answers 502 "Analyze service unavailable"; chat-service, given that
\* answer, answers 502 "NLP service unavailable"; and whatever its /classify
\* call gave, the client gets no 200 and not the detail "Analyze service
\* unavailable".
C18_FailureThroughTwoHops ==
    \A r \in Reqs :
        npc[r] = "done" /\ AnalyzeFailed(nseen[r]) =>
            /\ nresp[r].status = 502 /\ nresp[r].detail = "Analyze service unavailable"
            /\ gpc[r] = "done" /\ gseen[r].kind = "response" /\ gseen[r].status = 502 =>
                   gresp[r].status = 502 /\ gresp[r].detail = "NLP service unavailable"
            /\ gresp[r].status # 200
            /\ gresp[r].detail # "Analyze service unavailable"

\* the analyze endpoint answered 404, /classify answered 502 and the client
\* got 502 "NLP service unavailable"
C18_Witness ==
    \E r \in Reqs :
        /\ npc[r] = "done" /\ nseen[r] = Response(404, JsonObject(Absent))
        /\ nresp[r].status = 502
        /\ gpc[r] = "done" /\ gseen[r] = AsHttp(nresp[r])
        /\ gresp[r].status = 502 /\ gresp[r].detail = "NLP service unavailable"

(***************************************************************************)
(* Claims about the job of a request and its response.                     *)
(***************************************************************************)
JobInQueue(r) == \E i \in 1..Len(queue) : queue[i].origin = r /\ queue[i].body = "msg"

\* the worker's callback ran for the job of request r to its ack or nack
JobProcessed(r) ==
    \E t \in Tags : dlv[t].msg.origin = r /\ dlv[t].state \in {"Acknowledged", "Rejected"}

EndedWith(r, st) == gpc[r] = "done" /\ gresp[r].status = st

Interrupted == wexc = "interrupt"

Settled(t) == dlv[t].state \in {"Acknowledged", "Rejected"}

\* the message of delivery t is in the queue
BackInQueue(t) == \E i \in 1..Len(queue) : queue[i].id = dlv[t].msg.id

\* C20: once the worker is interrupted it is in its finally clause or has
\* ended; a delivery whose callback had returned is Acknowledged or
\* Rejected; a delivery whose callback had not returned is neither, its
\* message is held by the broker unacknowledged and is back in the queue
\* when the worker has ended; and from the interruption on no basic_ack and
\* no basic_nack is invoked.
C20_InterruptLeavesUnsettled ==
    /\ [](Interrupted =>
            /\ wpc \in {"finally", "exited"}
            /\ \A t \in Tags :
                   /\ dlv[t].left = "return" => Settled(t)
                   /\ dlv[t].left # "return" =>
                          /\ ~Settled(t)
                          /\ dlv[t].state \in {"Received", "Processing", "Returned"}
                          /\ wpc = "exited" => dlv[t].state = "Returned" /\ BackInQueue(t))
    /\ [][Interrupted =>
            \A t \in Tags : dlv'[t].ack = dlv[t].ack /\ dlv'[t].nack = dlv[t].nack]_vars

\* the worker was interrupted inside the callback of one delivery, after it
\* had acknowledged one and rejected another, with prefetched deliveries
\* waiting; all that were not settled are back in the queue
C20_Witness ==
    /\ Interrupted /\ wpc = "exited"
    /\ \E t \in Tags : dlv[t].left = "return" /\ dlv[t].state = "Acknowledged"
    /\ \E t \in Tags : dlv[t].left = "return" /\ dlv[t].state = "Rejected"
    /\ \E t \in Tags : /\ dlv[t].left = "interrupt" /\ dlv[t].state = "Returned"
                       /\ dlv[t].ack = 0 /\ dlv[t].nack = 0 /\ BackInQueue(t)
    /\ Cardinality({t \in Tags : dlv[t].left = "no" /\ dlv[t].state = "Returned"}) >= 5

====
